---- MODULE Spec2Model ----
(***************************************************************************)
(* Model of the Pulumi program of k8s-scaffold-meteor.                     *)
(*                                                                         *)
(*   index.ts  (lines 1-51)    the orchestrator: GkeCluster, the clusters   *)
(*                             list, the per-cluster DemoApp loop, appUrls  *)
(*   index.ts  (lines 53-233)  class GkeCluster: file store, volume, claim, *)
(*                             cluster, node pool, k8s provider             *)
(*   unnamed/part_000          class DemoApp: Deployment, HPA, Service,     *)
(*                             appUrl, and the constant APP_PORT            *)
(*                                                                         *)
(* The program body runs synchronously (no await): every `new Resource`    *)
(* registers a resource whose inputs are deferred Outputs.  The resource   *)
(* is submitted to its provider only when every Output it embeds, every    *)
(* dependsOn entry and its provider resource have resolved.  The program   *)
(* steps are modelled first (pc), the deferred submissions after them.     *)
(***************************************************************************)
EXTENDS Integers, Sequences, FiniteSets, TLC

\* ------------------------------------------------------------------ bounds
\* Longest PORT string enumerated for parseInt.
MaxPortLen == 3

\* ------------------------------------------------------- program constants
\* gke.ts: const storageClassName = "standard"   (index.ts:112)
storageClassName == "standard"
\* gke.ts: const diskName = "appDisk"            (index.ts:86)
diskName == "appDisk"
\* Service port of DemoApp: ports: [{port: 80, ...}]   (part_000:159)
ServicePort == 80
\* APP_PORT fallback: parseInt(process.env.PORT!) || 3000   (part_000:41)
DefaultPort == 3000

\* --------------------------------------------------------------- variables
VARIABLES
    clusters,    \* index.ts:22  the list of cluster targets (input)
    config,      \* the stack configuration value "filesVolumeSize" (input)
    pc,          \* "gke" | "loop" | "done" | "crashed": where the program is
    stmt,        \* index of the next statement of the running constructor
    idx,         \* index into clusters of the running loop iteration
    error,       \* the exception that ended the program, or "none"
    diskSize,    \* index.ts:85  const diskSize
    status,      \* per resource: its position in the deferred pipeline
    args,        \* per resource: the arguments it was constructed with
    resolved,    \* per resource: the Output values resolved at submission
    meta,        \* per resource: metadata.name given at creation
    appUrls,     \* index.ts:35  export let appUrls
    completion,  \* history: targets in the order their appUrl resolved
    urlIn,       \* input of the AppURL computation (SpecUrl)
    urlOut,      \* its result
    portEnv,     \* process.env.PORT (SpecPort)
    appPort      \* APP_PORT and the two places that use it

vars == <<clusters, config, pc, stmt, idx, error, diskSize, status, args,
          resolved, meta, appUrls, completion, urlIn, urlOut, portEnv, appPort>>

progVars == <<clusters, config, pc, stmt, idx, error, diskSize, status, args,
              resolved, meta, appUrls, completion>>
urlVars  == <<urlIn, urlOut>>
portVars == <<portEnv, appPort>>

\* ------------------------------------------------- targets and resources
\* Names a cluster target can carry in the clusters list (index.ts:22-28).
TargetNames == {"gke", "eks"}

\* index.ts:16-21  interface Cluster; the "gke" entry always carries the
\* claim of GkeCluster (index.ts:26), the entries of the other providers
\* (index.ts:24-27) may come without one.
ClusterEntries ==
    {e \in [name : TargetNames, hasPvc : BOOLEAN] : e.name = "gke" => e.hasPvc}

\* Every non-empty list of entries with distinct names.
ClusterLists ==
    {<<e>> : e \in ClusterEntries} \cup
    {l \in ClusterEntries \X ClusterEntries : l[1].name # l[2].name}

\* Values the configuration key "filesVolumeSize" can have.
ConfigValues ==
    {[kind |-> "missing", n |-> 0], [kind |-> "text", n |-> 0],
     [kind |-> "number", n |-> 1024], [kind |-> "number", n |-> 2560]}

\* Resources constructed by GkeCluster (index.ts:98-231).
GkeKinds == {"fileStoreInstance", "persistentVolume", "persistentVolumeClaim",
             "k8sCluster", "nodePool", "provider"}
\* Resources constructed by DemoApp (part_000:55-162).
AppKinds == {"deployment", "hpa", "service"}

Resources == ({"gke"} \X GkeKinds) \cup (TargetNames \X AppKinds)

TargetOf(r) == r[1]
KindOf(r) == r[2]

\* Suffixes the Kubernetes provider appends when it auto-names an object.
Suffixes == {"a1b2", "c3d4"}

GkeClusterBodyConfigLate ==
    <<"fileStoreInstance", "requireNumber", "persistentVolume",
      "persistentVolumeClaim", "k8sCluster", "nodePool", "provider">>

\* The statements of GkeCluster.constructor in source order (index.ts:85-231).
GkeClusterBody ==
    <<"requireNumber", "fileStoreInstance", "persistentVolume",
      "persistentVolumeClaim", "k8sCluster", "nodePool", "provider">>

\* The statements of one loop iteration (index.ts:41-51): the DemoApp
\* constructor (part_000:55-170) and the concat of index.ts:49-50.
LoopBody == <<"deployment", "hpa", "service", "appUrl", "concat">>

\* --------------------------------------------------- resource definitions
\* The Pulumi type token of a resource.
TypeOf(r) ==
    CASE KindOf(r) = "fileStoreInstance"     -> "gcp:filestore:Instance"
      [] KindOf(r) = "persistentVolume"      -> "kubernetes:core/v1:PersistentVolume"
      [] KindOf(r) = "persistentVolumeClaim" -> "kubernetes:core/v1:PersistentVolumeClaim"
      [] KindOf(r) = "k8sCluster"            -> "gcp:container:Cluster"
      [] KindOf(r) = "nodePool"              -> "gcp:container:NodePool"
      [] KindOf(r) = "provider"              -> "pulumi:providers:kubernetes"
      [] KindOf(r) = "deployment"            -> "kubernetes:apps/v1:Deployment"
      [] KindOf(r) = "hpa"                   -> "kubernetes:autoscaling/v1:HorizontalPodAutoscaler"
      [] KindOf(r) = "service"               -> "kubernetes:core/v1:Service"

\* The logical name passed as first constructor argument.
LogicalName(r) ==
    CASE KindOf(r) = "fileStoreInstance"     -> "nfs-instance"
      [] KindOf(r) = "persistentVolume"      -> "app-pv"
      [] KindOf(r) = "persistentVolumeClaim" -> "app-pvc"
      [] KindOf(r) = "k8sCluster"            -> "cluster"
      [] KindOf(r) = "nodePool"              -> "primary-node-pool"
      [] KindOf(r) = "provider"              -> "gke"
      [] KindOf(r) = "deployment"            -> TargetOf(r) \o "-scaffold-app"
      [] KindOf(r) = "hpa"                   -> "scaffold-app-hpa"
      [] KindOf(r) = "service"               -> TargetOf(r) \o "-scaffold-app"

\* The identity under which the engine knows a resource: type and name.
Identity(r) == <<TypeOf(r), LogicalName(r)>>

\* The handles a list entry passes to DemoApp (index.ts:42-47).  For "gke"
\* they are the resources of GkeCluster; for another provider they are
\* supplied from outside this program and are already resolved.
ProviderOf(t) == <<t, "provider">>
PvcOf(t) == <<t, "persistentVolumeClaim">>

\* spec of app-pv (index.ts:115-129); the constructor is given no resource
\* options, so the object goes to the default Kubernetes provider
PersistentVolumeSpec(size) ==
    [storage |-> ToString(size) \o "Gi",
     accessModes |-> <<"ReadWriteMany">>,
     persistentVolumeReclaimPolicy |-> "Retain",
     storageClassName |-> storageClassName,
     nfsPath |-> "/" \o diskName,
     nfsServer |-> <<"gke", "fileStoreInstance">>,
     provider |-> <<"default", "provider">>]

ClaimWrongClass(size) ==
    [storageClassName |-> "standard-rwo",
     accessModes |-> <<"ReadWriteMany">>,
     storage |-> ToString(size) \o "Gi",
     volumeName |-> <<"gke", "persistentVolume">>,
     provider |-> <<"default", "provider">>]

\* spec of app-pvc (index.ts:132-144); no resource options either
PersistentVolumeClaimSpec(size) ==
    [storageClassName |-> storageClassName,
     accessModes |-> <<"ReadWriteMany">>,
     storage |-> ToString(size) \o "Gi",
     volumeName |-> <<"gke", "persistentVolume">>,
     provider |-> <<"default", "provider">>]

\* the storage part of the Deployment's pod template (part_000:68-73,
\* 105-110) and its resource options (part_000:123)
DeploymentSpec(t) ==
    [volumeMounts |-> <<[mountPath |-> "/opt/app-files", name |-> "app-volume"]>>,
     volumes |-> <<[name |-> "app-volume", claimName |-> PvcOf(t)]>>,
     replicas |-> 2,
     provider |-> ProviderOf(t)]

\* HorizontalPodAutoscaler (part_000:125-152): explicit metadata.name, no
\* resource options
HpaSpec(t) ==
    [metadataName |-> "scaffold-app-hpa",
     scaleTargetRef |-> <<t, "deployment">>,
     minReplicas |-> 2, maxReplicas |-> 4,
     provider |-> <<"default", "provider">>]

\* Service (part_000:155-162)
ServiceSpec(t) ==
    [port |-> ServicePort, type |-> "LoadBalancer", provider |-> ProviderOf(t)]

NoArgs == [unset |-> TRUE]

ProviderDependsOnCluster(r) ==
    (CASE KindOf(r) = "fileStoreInstance"     -> {}
       [] KindOf(r) = "persistentVolume"      -> {<<"gke", "fileStoreInstance">>}
       [] KindOf(r) = "persistentVolumeClaim" -> {<<"gke", "persistentVolume">>}
       [] KindOf(r) = "k8sCluster"            -> {}
       [] KindOf(r) = "nodePool"              -> {<<"gke", "k8sCluster">>}
       [] KindOf(r) = "provider"              -> {<<"gke", "k8sCluster">>}
       [] KindOf(r) = "deployment"            -> {ProviderOf(TargetOf(r)), PvcOf(TargetOf(r))}
       [] KindOf(r) = "hpa"                   -> {<<TargetOf(r), "deployment">>}
       [] KindOf(r) = "service"               -> {ProviderOf(TargetOf(r))})
    \cap Resources

DeploymentWithoutClaim(r) ==
    (CASE KindOf(r) = "fileStoreInstance"     -> {}
       [] KindOf(r) = "persistentVolume"      -> {<<"gke", "fileStoreInstance">>}
       [] KindOf(r) = "persistentVolumeClaim" -> {<<"gke", "persistentVolume">>}
       [] KindOf(r) = "k8sCluster"            -> {}
       [] KindOf(r) = "nodePool"              -> {<<"gke", "k8sCluster">>}
       [] KindOf(r) = "provider"              -> {<<"gke", "k8sCluster">>, <<"gke", "nodePool">>}
       [] KindOf(r) = "deployment"            -> {ProviderOf(TargetOf(r))}
       [] KindOf(r) = "hpa"                   -> {<<TargetOf(r), "deployment">>}
       [] KindOf(r) = "service"               -> {ProviderOf(TargetOf(r))})
    \cap Resources

HpaWithoutDeployment(r) ==
    (CASE KindOf(r) = "fileStoreInstance"     -> {}
       [] KindOf(r) = "persistentVolume"      -> {<<"gke", "fileStoreInstance">>}
       [] KindOf(r) = "persistentVolumeClaim" -> {<<"gke", "persistentVolume">>}
       [] KindOf(r) = "k8sCluster"            -> {}
       [] KindOf(r) = "nodePool"              -> {<<"gke", "k8sCluster">>}
       [] KindOf(r) = "provider"              -> {<<"gke", "k8sCluster">>, <<"gke", "nodePool">>}
       [] KindOf(r) = "deployment"            -> {ProviderOf(TargetOf(r)), PvcOf(TargetOf(r))}
       [] KindOf(r) = "hpa"                   -> {}
       [] KindOf(r) = "service"               -> {ProviderOf(TargetOf(r))})
    \cap Resources

\* What a resource waits for before it is submitted: the resources whose
\* Outputs it embeds, its dependsOn list and its provider.
\*   persistentVolume       fileStoreInstance.networks       (index.ts:126)
\*   persistentVolumeClaim  persistentVolume.metadata.name   (index.ts:142)
\*   nodePool               k8sCluster.name, dependsOn       (index.ts:169,191)
\*   provider               kubeconfig of k8sCluster, dependsOn: [nodePool]
\*                                                           (index.ts:198,230)
\*   deployment             args.pvc.metadata.name, provider (part_000:108,123)
\*   hpa                    deployment.metadata.name         (part_000:133)
\*   service                provider                         (part_000:162)
\* Handles that are not resources of this program are already resolved.
Deps(r) ==
    (CASE KindOf(r) = "fileStoreInstance"     -> {}
       [] KindOf(r) = "persistentVolume"      -> {<<"gke", "fileStoreInstance">>}
       [] KindOf(r) = "persistentVolumeClaim" -> {<<"gke", "persistentVolume">>}
       [] KindOf(r) = "k8sCluster"            -> {}
       [] KindOf(r) = "nodePool"              -> {<<"gke", "k8sCluster">>}
       [] KindOf(r) = "provider"              -> {<<"gke", "k8sCluster">>, <<"gke", "nodePool">>}
       [] KindOf(r) = "deployment"            -> {ProviderOf(TargetOf(r)), PvcOf(TargetOf(r))}
       [] KindOf(r) = "hpa"                   -> {<<TargetOf(r), "deployment">>}
       [] KindOf(r) = "service"               -> {ProviderOf(TargetOf(r))})
    \cap Resources

\* ------------------------------------------------------ the program steps
PrependAppUrl(urls, entry) == <<entry>> \o urls

\* index.ts:50  appUrls = appUrls.concat(instanceUrl)
ConcatAppUrl(urls, entry) == urls \o <<entry>>

\* new X(name, args, opts): the resource is registered, not yet submitted.
Register(r, a) ==
    /\ status' = [status EXCEPT ![r] = "pending"]
    /\ args' = [args EXCEPT ![r] = a]

\* Leave the current statement of GkeCluster.constructor; the loop of
\* index.ts:41 starts when the constructor returns.
GkeAdvance ==
    IF stmt < Len(GkeClusterBody)
    THEN /\ stmt' = stmt + 1
         /\ UNCHANGED <<pc, idx>>
    ELSE /\ pc' = "loop"
         /\ stmt' = 1
         /\ idx' = 1

AtGke(s) == pc = "gke" /\ GkeClusterBody[stmt] = s
AtLoop(s) == pc = "loop" /\ LoopBody[stmt] = s

\* index.ts:85  const diskSize = config.requireNumber("filesVolumeSize")
\* throws when the key is missing or its value is not a number.
RequireNumber ==
    /\ AtGke("requireNumber")
    /\ IF config.kind = "number"
       THEN /\ diskSize' = config.n
            /\ GkeAdvance
            /\ UNCHANGED error
       ELSE /\ pc' = "crashed"
            /\ error' = IF config.kind = "missing" THEN "ConfigMissingError"
                                                   ELSE "ConfigTypeError"
            /\ UNCHANGED <<diskSize, stmt, idx>>
    /\ UNCHANGED <<clusters, config, status, args, resolved, meta, appUrls,
                   completion, urlVars, portVars>>

\* One `new` statement of GkeCluster.constructor.
GkeNew(kind, a) ==
    /\ AtGke(kind)
    /\ Register(<<"gke", kind>>, a)
    /\ GkeAdvance
    /\ UNCHANGED <<clusters, config, error, diskSize, resolved, meta, appUrls,
                   completion, urlVars, portVars>>

\* index.ts:98-109
NewFileStoreInstance ==
    GkeNew("fileStoreInstance",
           [tier |-> "STANDARD", shareName |-> diskName, capacityGb |-> diskSize])
\* index.ts:115-129
NewPersistentVolume == GkeNew("persistentVolume", PersistentVolumeSpec(diskSize))
\* index.ts:132-144
NewPersistentVolumeClaim ==
    GkeNew("persistentVolumeClaim", PersistentVolumeClaimSpec(diskSize))
\* index.ts:157-166
NewCluster ==
    GkeNew("k8sCluster", [initialNodeCount |-> 1, removeDefaultNodePool |-> TRUE])
\* index.ts:168-192
NewNodePool ==
    GkeNew("nodePool", [cluster |-> <<"gke", "k8sCluster">>, initialNodeCount |-> 2,
                        dependsOn |-> {<<"gke", "k8sCluster">>}])
\* index.ts:228-231
NewProvider ==
    GkeNew("provider", [kubeconfig |-> <<"gke", "k8sCluster">>,
                        dependsOn |-> {<<"gke", "nodePool">>}])

\* The target of the running loop iteration.
cluster == clusters[idx]

\* part_000:55-123.  The pod template reads args.pvc.metadata.name
\* (part_000:108): when the entry carries no pvc the property access on
\* undefined throws a TypeError and nothing is constructed.
NewDeployment ==
    /\ AtLoop("deployment")
    /\ IF cluster.hasPvc
       THEN /\ Register(<<cluster.name, "deployment">>, DeploymentSpec(cluster.name))
            /\ stmt' = stmt + 1
            /\ UNCHANGED <<pc, error>>
       ELSE /\ pc' = "crashed"
            /\ error' = "TypeError"
            /\ UNCHANGED <<stmt, status, args>>
    /\ UNCHANGED <<clusters, config, idx, diskSize, resolved, meta, appUrls,
                   completion, urlVars, portVars>>

\* part_000:125-152
NewHpa ==
    /\ AtLoop("hpa")
    /\ Register(<<cluster.name, "hpa">>, HpaSpec(cluster.name))
    /\ stmt' = stmt + 1
    /\ UNCHANGED <<clusters, config, pc, idx, error, diskSize, resolved, meta,
                   appUrls, completion, urlVars, portVars>>

\* part_000:155-162
NewService ==
    /\ AtLoop("service")
    /\ Register(<<cluster.name, "service">>, ServiceSpec(cluster.name))
    /\ stmt' = stmt + 1
    /\ UNCHANGED <<clusters, config, pc, idx, error, diskSize, resolved, meta,
                   appUrls, completion, urlVars, portVars>>

\* part_000:165-172  this.appUrl is a deferred value over the Service's
\* outputs; nothing is registered.
SetAppUrl ==
    /\ AtLoop("appUrl")
    /\ stmt' = stmt + 1
    /\ UNCHANGED <<clusters, config, pc, idx, error, diskSize, status, args,
                   resolved, meta, appUrls, completion, urlVars, portVars>>

\* index.ts:49-51  the entry is appended while the loop runs, then the loop
\* goes to the next cluster or ends.
AppendAppUrl ==
    /\ AtLoop("concat")
    /\ appUrls' = ConcatAppUrl(appUrls, [name |-> cluster.name,
                                         url |-> <<cluster.name, "service">>])
    /\ IF idx < Len(clusters)
       THEN /\ idx' = idx + 1
            /\ stmt' = 1
            /\ pc' = pc
       ELSE /\ pc' = "done"
            /\ UNCHANGED <<idx, stmt>>
    /\ UNCHANGED <<clusters, config, error, diskSize, status, args, resolved,
                   meta, completion, urlVars, portVars>>

\* ------------------------------------------- deferred submission of resources
\* The synchronous program body has ended: deferred work runs only now.
ProgramEnded == pc \in {"done", "crashed"}

Known == {"inflight", "created", "failed", "hung"}

\* All that r waits for has resolved.
Ready(r) ==
    /\ status[r] = "pending"
    /\ \A d \in Deps(r) : status[d] = "created"

\* Another resource is already known to the engine under r's identity.
Taken(r) ==
    \E o \in Resources \ {r} : status[o] \in Known /\ Identity(o) = Identity(r)

\* metadata.name of a handle: of a resource of this program, the name it
\* got at creation; of a handle supplied from outside, its given name.
NameOf(h) == IF h \in Resources THEN meta[h] ELSE h[1] \o "-" \o h[2]

\* The Output values embedded in r's arguments, as resolved at submission.
ResolveRefs(r) ==
    CASE KindOf(r) = "persistentVolumeClaim" -> NameOf(args[r].volumeName)
      [] KindOf(r) = "deployment"            -> NameOf(args[r].volumes[1].claimName)
      [] KindOf(r) = "hpa"                   -> NameOf(args[r].scaleTargetRef)
      [] OTHER                               -> ""

\* The Kubernetes objects built without metadata.name are auto-named.
AutoNamed == {"persistentVolume", "persistentVolumeClaim", "deployment", "service"}

\* r's inputs have resolved and the engine accepts its registration: the
\* create operation is sent to the provider.
Submit(r) ==
    /\ ProgramEnded
    /\ Ready(r)
    /\ ~Taken(r)
    /\ status' = [status EXCEPT ![r] = "inflight"]
    /\ resolved' = [resolved EXCEPT ![r] = ResolveRefs(r)]
    /\ UNCHANGED <<clusters, config, pc, stmt, idx, error, diskSize, args, meta,
                   appUrls, completion, urlVars, portVars>>

\* r's inputs have resolved but its identity is already registered: the
\* engine rejects the registration (duplicate URN).
Reject(r) ==
    /\ ProgramEnded
    /\ Ready(r)
    /\ Taken(r)
    /\ status' = [status EXCEPT ![r] = "rejected"]
    /\ UNCHANGED <<clusters, config, pc, stmt, idx, error, diskSize, args,
                   resolved, meta, appUrls, completion, urlVars, portVars>>

\* The provider operation succeeds: r's outputs resolve.  The appUrl of a
\* target resolves with the outputs of its Service (part_000:165-170).
Complete(r) ==
    /\ status[r] = "inflight"
    /\ status' = [status EXCEPT ![r] = "created"]
    /\ \E sfx \in Suffixes :
         meta' = [meta EXCEPT ![r] =
                    IF KindOf(r) \in AutoNamed THEN LogicalName(r) \o "-" \o sfx
                    ELSE IF KindOf(r) = "hpa" THEN args[r].metadataName
                    ELSE LogicalName(r)]
    /\ completion' = IF KindOf(r) = "service" THEN Append(completion, TargetOf(r))
                                              ELSE completion
    /\ UNCHANGED <<clusters, config, pc, stmt, idx, error, diskSize, args,
                   resolved, appUrls, urlVars, portVars>>

\* The provider operation is rejected by the provider.
Fail(r) ==
    /\ status[r] = "inflight"
    /\ status' = [status EXCEPT ![r] = "failed"]
    /\ UNCHANGED <<clusters, config, pc, stmt, idx, error, diskSize, args,
                   resolved, meta, appUrls, completion, urlVars, portVars>>

\* The provider operation never returns.
Hang(r) ==
    /\ status[r] = "inflight"
    /\ status' = [status EXCEPT ![r] = "hung"]
    /\ UNCHANGED <<clusters, config, pc, stmt, idx, error, diskSize, args,
                   resolved, meta, appUrls, completion, urlVars, portVars>>

\* ------------------------------------------------------------ specification
NoUrl == [name |-> "", ip |-> "", hostname |-> "", port |-> 0]
NoPort == [set |-> FALSE, chars |-> <<>>]

\* index.ts:13 starts GkeCluster.constructor; nothing is registered yet.
Init ==
    /\ clusters \in ClusterLists
    /\ config \in ConfigValues
    /\ pc = "gke"
    /\ stmt = 1
    /\ idx = 0
    /\ error = "none"
    /\ diskSize = 0
    /\ status = [r \in Resources |-> "unregistered"]
    /\ args = [r \in Resources |-> NoArgs]
    /\ resolved = [r \in Resources |-> ""]
    /\ meta = [r \in Resources |-> ""]
    /\ appUrls = <<>>
    /\ completion = <<>>
    /\ urlIn = NoUrl
    /\ urlOut = ""
    /\ portEnv = NoPort
    /\ appPort = [APP_PORT |-> 0, containerPort |-> 0, targetPort |-> 0]

Next ==
    \/ RequireNumber
    \/ NewFileStoreInstance
    \/ NewPersistentVolume
    \/ NewPersistentVolumeClaim
    \/ NewCluster
    \/ NewNodePool
    \/ NewProvider
    \/ NewDeployment
    \/ NewHpa
    \/ NewService
    \/ SetAppUrl
    \/ AppendAppUrl
    \/ \E r \in Resources : Submit(r)
    \/ \E r \in Resources : Reject(r)
    \/ \E r \in Resources : Complete(r)
    \/ \E r \in Resources : Fail(r)
    \/ \E r \in Resources : Hang(r)

Spec == Init /\ [][Next]_vars

\* -------------------------------------------------- AppURL (part_000:164-170)
\* A JavaScript value that may be undefined: <<>> or <<v>>.  Inside a
\* template string undefined is rendered as the text "undefined".
JsString(v) == IF v = <<>> THEN "undefined" ELSE v[1]

AddressHostnameOnly(name, ingress) == ingress.hostname

\* part_000:165-168  hostname by default, ip for "gke" and "aks"
Address(name, ingress) ==
    IF name = "gke" \/ name = "aks" THEN ingress.ip ELSE ingress.hostname

\* part_000:159  ports: [{port: 80, targetPort: APP_PORT}]
ServicePorts(port) == [port |-> ServicePort, targetPort |-> port]

\* part_000:170  pulumi.interpolate`http://${address}:${service.spec.ports[0].port}`
AppUrl(name, ingress, ports) ==
    "http://" \o JsString(Address(name, ingress)) \o ":" \o ToString(ports.port)

UrlNames == {"gke", "aks", "eks", "local", "custom-provider"}
UrlInputs ==
    [name : UrlNames,
     ip : {<<>>, <<"10.0.0.5">>, <<"34.1.2.3">>},
     hostname : {<<>>, <<"lb.example.com">>},
     port : {80, 3000, 8080}]

\* The main program is not running in the specifications of the two
\* computations below.
Idle ==
    /\ clusters = <<>>
    /\ config = [kind |-> "missing", n |-> 0]
    /\ pc = "idle"
    /\ stmt = 1
    /\ idx = 0
    /\ error = "none"
    /\ diskSize = 0
    /\ status = [r \in Resources |-> "unregistered"]
    /\ args = [r \in Resources |-> NoArgs]
    /\ resolved = [r \in Resources |-> ""]
    /\ meta = [r \in Resources |-> ""]
    /\ appUrls = <<>>
    /\ completion = <<>>

InitUrl ==
    /\ Idle
    /\ urlIn \in UrlInputs
    /\ urlOut = ""
    /\ portEnv = NoPort
    /\ appPort = [APP_PORT |-> 0, containerPort |-> 0, targetPort |-> 0]

\* The Service of target urlIn.name reports its load-balancer status and
\* the appUrl resolves.
ResolveAppUrl ==
    /\ urlOut = ""
    /\ urlOut' = AppUrl(urlIn.name, [ip |-> urlIn.ip, hostname |-> urlIn.hostname],
                        ServicePorts(urlIn.port))
    /\ UNCHANGED <<progVars, urlIn, portVars>>

NextUrl == ResolveAppUrl

SpecUrl == InitUrl /\ [][NextUrl]_vars

\* ------------------------------------------------------ APP_PORT (part_000:41)
\* Characters a PORT value is built from here: decimal digits, a hex digit,
\* the hex marker, a sign and a blank.
PortChars == {"0", "3", "8", "a", "x", "-", " "}

RECURSIVE SeqsUpTo(_)
SeqsUpTo(n) ==
    IF n = 0 THEN {<<>>}
    ELSE LET shorter == SeqsUpTo(n - 1)
         IN shorter \cup {Append(q, c) : q \in shorter, c \in PortChars}

PortInputs == {NoPort} \cup {[set |-> TRUE, chars |-> q] : q \in SeqsUpTo(MaxPortLen)}

\* Value of a digit character, -1 for a character that is no digit.
DigitVal(c) ==
    CASE c = "0" -> 0 [] c = "3" -> 3 [] c = "8" -> 8 [] c = "a" -> 10 [] OTHER -> -1

RECURSIVE TrimLeft(_)
TrimLeft(q) == IF q # <<>> /\ Head(q) = " " THEN TrimLeft(Tail(q)) ELSE q

\* The longest prefix of q made of digits of the radix.
RECURSIVE DigitPrefix(_, _)
DigitPrefix(q, radix) ==
    IF q # <<>> /\ DigitVal(Head(q)) >= 0 /\ DigitVal(Head(q)) < radix
    THEN <<Head(q)>> \o DigitPrefix(Tail(q), radix)
    ELSE <<>>

RECURSIVE DigitsValue(_, _)
DigitsValue(q, radix) ==
    IF q = <<>> THEN 0
    ELSE DigitsValue(SubSeq(q, 1, Len(q) - 1), radix) * radix + DigitVal(q[Len(q)])

NaN == [nan |-> TRUE, n |-> 0]

\* ECMAScript parseInt(string) without radix: leading white space is
\* skipped, a sign is read, "0x" selects radix 16, then the longest prefix
\* of digits is converted; NaN when that prefix is empty.  An unset
\* variable is the value undefined, converted to the text "undefined".
parseInt(env) ==
    IF ~env.set THEN NaN
    ELSE LET trimmed == TrimLeft(env.chars)
             neg == trimmed # <<>> /\ Head(trimmed) = "-"
             unsigned == IF neg THEN Tail(trimmed) ELSE trimmed
             hex == Len(unsigned) >= 2 /\ unsigned[1] = "0" /\ unsigned[2] = "x"
             radix == IF hex THEN 16 ELSE 10
             body == IF hex THEN SubSeq(unsigned, 3, Len(unsigned)) ELSE unsigned
             digits == DigitPrefix(body, radix)
         IN IF digits = <<>> THEN NaN
            ELSE [nan |-> FALSE,
                  n |-> IF neg THEN 0 - DigitsValue(digits, radix)
                               ELSE DigitsValue(digits, radix)]

\* part_000:41  const APP_PORT = parseInt(process.env.PORT!) || 3000
\* NaN and 0 are falsy.
APP_PORT(env) ==
    LET parsed == parseInt(env)
    IN IF parsed.nan \/ parsed.n = 0 THEN DefaultPort ELSE parsed.n

InitPort ==
    /\ Idle
    /\ urlIn = NoUrl
    /\ urlOut = ""
    /\ portEnv \in PortInputs
    /\ appPort = [APP_PORT |-> 0, containerPort |-> 0, targetPort |-> 0]

\* Module load of app.ts: APP_PORT is evaluated once and is then used as
\* containerPort (part_000:66) and as targetPort (part_000:159).
EvalAppPort ==
    /\ appPort.APP_PORT = 0
    /\ appPort' = [APP_PORT |-> APP_PORT(portEnv),
                   containerPort |-> APP_PORT(portEnv),
                   targetPort |-> ServicePorts(APP_PORT(portEnv)).targetPort]
    /\ UNCHANGED <<progVars, urlVars, portEnv>>

NextPort == EvalAppPort

SpecPort == InitPort /\ [][NextPort]_vars

\* ================================================================== claims
Gke(kind) == <<"gke", kind>>

\* The create operation of r has been sent to its provider.
Submitted(r) == status[r] \in Known

Registered(r) == status[r] # "unregistered"

StorageKinds == {"fileStoreInstance", "persistentVolume", "persistentVolumeClaim"}
ClusterKinds == {"k8sCluster", "nodePool", "provider"}

\* C1: the AppURL is "http://<address>:<port>", the address being the
\* ingress ip for the names "gke" and "aks" and the ingress hostname for
\* every other name, the port being the Service's external port 80 whatever
\* the container port is.
C1_AppUrlAddressAndPort ==
    urlOut # "" =>
        urlOut = "http://"
                 \o JsString(IF urlIn.name \in {"gke", "aks"} THEN urlIn.ip
                                                             ELSE urlIn.hostname)
                 \o ":80"

\* A target outside the ip subset, both fields reported, container port 3000.
C1_Witness ==
    /\ urlIn.name = "custom-provider"
    /\ urlIn.ip = <<"10.0.0.5">>
    /\ urlIn.hostname = <<"lb.example.com">>
    /\ urlIn.port = 3000
    /\ urlOut = "http://lb.example.com:80"

\* C2: the k8s Provider "gke" is submitted only after the dedicated node
\* pool has been created, the node pool only after the cluster has been
\* created, and neither the Deployment nor the Service of "gke" is ever
\* submitted while the node pool is not created.
C2_HandleAfterNodePool ==
    /\ Submitted(Gke("provider")) => status[Gke("nodePool")] = "created"
    /\ Submitted(Gke("nodePool")) => status[Gke("k8sCluster")] = "created"
    /\ \A k \in {"deployment", "service"} :
         Submitted(Gke(k)) => /\ status[Gke("provider")] = "created"
                              /\ status[Gke("nodePool")] = "created"

\* Both consumers of the handle have been submitted.
C2_Witness ==
    /\ status[Gke("deployment")] = "inflight"
    /\ status[Gke("service")] = "inflight"

\* C3 as stated: storage provisioning and cluster provisioning have both
\* resolved before the Deployment is submitted and before the Service is
\* submitted.
C3_Original ==
    \A k \in {"deployment", "service"} :
        Submitted(Gke(k)) =>
            \A p \in StorageKinds \cup ClusterKinds : status[Gke(p)] = "created"

\* C3 amended: storage and cluster provisioning have both resolved before
\* the Deployment is submitted; cluster provisioning has resolved before
\* the Service is submitted.
C3_DeploymentAfterStorageAndCluster ==
    /\ Submitted(Gke("deployment")) =>
           \A p \in StorageKinds \cup ClusterKinds : status[Gke(p)] = "created"
    /\ Submitted(Gke("service")) =>
           \A p \in ClusterKinds : status[Gke(p)] = "created"

\* The Deployment is submitted, and the Service was submitted too.
C3_Witness ==
    /\ status[Gke("deployment")] = "created"
    /\ Submitted(Gke("service"))

\* Nothing is in flight and nothing can be submitted any more.
Quiescent ==
    \A r \in Resources : status[r] # "inflight" /\ ~Ready(r)

\* A provider operation of target t itself failed or hangs.
OwnFault(t) ==
    \E r \in Resources : TargetOf(r) = t /\ status[r] \in {"failed", "hung"}

\* Every resource of target t is created and its appUrl has resolved.
Completed(t) ==
    /\ \A r \in Resources : TargetOf(r) = t /\ Registered(r) => status[r] = "created"
    /\ \E i \in 1..Len(completion) : completion[i] = t

\* C4: no resource of a target waits for a resource of another target, and
\* when the run has come to rest every target of the list either has
\* completed and produced its AppURL or was stopped by a failed or hanging
\* operation of its own.
C4_TargetsIndependent ==
    /\ \A r \in Resources : \A d \in Deps(r) : TargetOf(d) = TargetOf(r)
    /\ (pc = "done" /\ Quiescent) =>
           \A i \in 1..Len(clusters) :
               OwnFault(clusters[i].name) \/ Completed(clusters[i].name)

\* C5: no resource identity (type and logical name) is registered for two
\* different targets.
C5_ExclusiveOwnership ==
    \A r1, r2 \in Resources :
        (Registered(r1) /\ Registered(r2) /\ Identity(r1) = Identity(r2))
            => TargetOf(r1) = TargetOf(r2)

\* C6: the claim has the storage-class name, the capacity and the access
\* mode (ReadWriteMany) of the volume, its volumeName is the volume's
\* metadata.name, and the volume's reclaim policy is Retain.
C6_ClaimMatchesVolume ==
    Registered(Gke("persistentVolumeClaim")) =>
        LET pv  == args[Gke("persistentVolume")]
            pvc == args[Gke("persistentVolumeClaim")]
        IN /\ Registered(Gke("persistentVolume"))
           /\ pvc.storageClassName = pv.storageClassName
           /\ pvc.storage = pv.storage
           /\ pv.storage = ToString(config.n) \o "Gi"
           /\ pvc.accessModes = <<"ReadWriteMany">>
           /\ pv.accessModes = <<"ReadWriteMany">>
           /\ pv.persistentVolumeReclaimPolicy = "Retain"
           /\ pvc.volumeName = Gke("persistentVolume")
           /\ Submitted(Gke("persistentVolumeClaim")) =>
                  /\ meta[Gke("persistentVolume")] # ""
                  /\ resolved[Gke("persistentVolumeClaim")] = meta[Gke("persistentVolume")]

\* The claim of a 2560 GB share has been created against its volume.
C6_Witness ==
    /\ config.n = 2560
    /\ status[Gke("persistentVolumeClaim")] = "created"
    /\ resolved[Gke("persistentVolumeClaim")] = "app-pv-c3d4"

\* C7: deploying with no claim handle succeeds and gives a workload with no
\* volume mount and no volumes entry; deploying with a claim handle mounts
\* exactly that claim at the fixed container path.
C7_ClaimIsOptional ==
    /\ error # "TypeError"
    /\ \A i \in 1..Len(clusters) :
         LET t == clusters[i].name
             d == args[<<t, "deployment">>]
         IN Registered(<<t, "deployment">>) =>
              IF clusters[i].hasPvc
              THEN /\ d.volumeMounts = <<[mountPath |-> "/opt/app-files", name |-> "app-volume"]>>
                   /\ d.volumes = <<[name |-> "app-volume", claimName |-> PvcOf(t)]>>
              ELSE d.volumeMounts = <<>> /\ d.volumes = <<>>

\* PORT is a non-empty string of decimal digits only.
WhollyDecimal(env) ==
    /\ env.set
    /\ env.chars # <<>>
    /\ \A i \in 1..Len(env.chars) : env.chars[i] \in {"0", "3", "8"}

\* C8: the effective container port, used as containerPort and as the
\* Service's targetPort, is 3000 when PORT is unset or is not wholly a
\* decimal integer, and is that integer when PORT is a decimal integer.
C8_PortDefault ==
    appPort.APP_PORT # 0 =>
        /\ appPort.containerPort = appPort.APP_PORT
        /\ appPort.targetPort = appPort.APP_PORT
        /\ appPort.APP_PORT = IF WhollyDecimal(portEnv)
                              THEN DigitsValue(portEnv.chars, 10)
                              ELSE 3000

\* Names of the entries of appUrls, in order.
AppUrlNames == [i \in 1..Len(appUrls) |-> appUrls[i].name]

\* C9 as stated: the entries of appUrls are in the order in which the
\* targets' deferred URLs resolved.
C9_Original ==
    (pc = "done" /\ Len(completion) = Len(clusters)) => AppUrlNames = completion

\* C9 amended: the entries of appUrls are in the declaration order of the
\* target list, whatever the order in which the targets' URLs resolve.
C9_DeclarationOrder ==
    /\ Len(appUrls) <= Len(clusters)
    /\ \A i \in 1..Len(appUrls) : appUrls[i].name = clusters[i].name
    /\ pc = "done" => Len(appUrls) = Len(clusters)

\* The second target's URL resolved first.
C9_Witness ==
    /\ pc = "done"
    /\ Len(clusters) = 2
    /\ completion = <<clusters[2].name, clusters[1].name>>
    /\ AppUrlNames = <<clusters[1].name, clusters[2].name>>

\* C10: when filesVolumeSize is missing the program ends in a configuration
\* error and no resource has been registered, hence none submitted, when
\* the error is raised or at any time after.
C10_ConfigErrorBeforeProvisioning ==
    config.kind = "missing" =>
        /\ \A r \in Resources : status[r] = "unregistered"
        /\ pc \in {"gke", "crashed", "idle"}
        /\ pc = "crashed" => error = "ConfigMissingError"

\* The configuration error has been raised.
C10_Witness ==
    /\ config.kind = "missing"
    /\ pc = "crashed"
    /\ error = "ConfigMissingError"

\* C11: the HorizontalPodAutoscaler of a target is submitted only after the
\* target's Deployment has been created, and the deployment name in its
\* scaleTargetRef is the metadata.name the created Deployment has.
C11_HpaAfterDeployment ==
    \A t \in TargetNames :
        /\ Registered(<<t, "hpa">>) => args[<<t, "hpa">>].scaleTargetRef = <<t, "deployment">>
        /\ Submitted(<<t, "hpa">>) =>
               /\ status[<<t, "deployment">>] = "created"
               /\ meta[<<t, "deployment">>] # ""
               /\ resolved[<<t, "hpa">>] = meta[<<t, "deployment">>]

\* The autoscaler of "eks" exists and targets the auto-named Deployment.
C11_Witness ==
    /\ status[<<"eks", "hpa">>] = "created"
    /\ meta[<<"eks", "deployment">>] = "eks-scaffold-app-c3d4"
    /\ resolved[<<"eks", "hpa">>] = "eks-scaffold-app-c3d4"

\* The resources that are Kubernetes objects.
K8sKinds == {"persistentVolume", "persistentVolumeClaim", "deployment", "hpa", "service"}

\* C12: every Kubernetes-level resource of a target (volume, claim,
\* Deployment, HorizontalPodAutoscaler, Service) is submitted through that
\* target's own k8s Provider, none through the default provider.
C12_SameProviderForAll ==
    \A r \in Resources :
        (KindOf(r) \in K8sKinds /\ Submitted(r)) =>
            args[r].provider = ProviderOf(TargetOf(r))

====
